---- MODULE Spec2Model ----
(***************************************************************************)
(* A model of file_cmp: the chunked byte comparator compare_files and the  *)
(* recursive, data-parallel directory differ compare_dirs (src/src/lib.rs).*)
(***************************************************************************)
EXTENDS Integers, Sequences, FiniteSets, Bags, TLC

(***************************************************************************)
(* Bounds of the model.                                                    *)
(***************************************************************************)
\* Longest file content explored by the file comparator specification.
MaxLen == 4
\* Largest chunk_size explored (0 is explored too: vec![0u8; 0]).
MaxChunk == 5
\* Capacity of the BufReader wrapped around each File (8 KiB in std), scaled
\* down so that chunk sizes below, at and above the capacity are explored.
BufCap == 3

Byte == {0, 1}

Min(x, y) == IF x <= y THEN x ELSE y
Max(x, y) == IF x >= y THEN x ELSE y

\* All byte strings of length at most n.
BytesUpTo(n) == UNION {[1..k -> Byte] : k \in 0..n}

(***************************************************************************)
(* FileDiff (lib.rs 50-57)                                                 *)
(***************************************************************************)
Equal == <<"Equal">>
Different(offset) == <<"Different", offset>>
LeftOnly == <<"LeftOnly">>
RightOnly == <<"RightOnly">>
Error(msg) == <<"Error", msg>>

IsDifferent(d) == d[1] = "Different"
IsError(d) == d[1] = "Error"

\* io::Result<FileDiff>: Ok(d) or Err(e); Pending while the call is running.
Ok(d) == <<"Ok", d>>
Err(e) == <<"Err", e>>
Pending == <<"Pending">>

(***************************************************************************)
(* BufReader<File>::read (lib.rs 162-163, 170-171).  A reader is the file  *)
(* offset reached by the underlying reads (off) and the number of bytes    *)
(* held in the internal buffer that were not handed out yet (avail).       *)
(***************************************************************************)
NewReader == [off |-> 0, avail |-> 0]

\* A read into a buffer of n bytes bypasses the internal buffer when it is
\* empty and n is at least its capacity; otherwise the internal buffer is
\* refilled when empty and the read is served from it.
ReaderFill(content, rd, n) ==
    IF rd.avail = 0 /\ n >= BufCap
    THEN rd
    ELSE IF rd.avail = 0
         THEN LET k == Min(BufCap, Len(content) - rd.off)
              IN  [off |-> rd.off + k, avail |-> k]
         ELSE rd

\* Number of bytes the read returns.
ReadLen(content, rd, n) ==
    IF rd.avail = 0 /\ n >= BufCap
    THEN Min(n, Len(content) - rd.off)
    ELSE Min(n, ReaderFill(content, rd, n).avail)

\* Offset in the file of the first byte the read returns.
ReadAt(content, rd, n) ==
    LET f == ReaderFill(content, rd, n) IN f.off - f.avail

\* The reader after the read.
ReaderAfter(content, rd, n) ==
    IF rd.avail = 0 /\ n >= BufCap
    THEN [off |-> rd.off + ReadLen(content, rd, n), avail |-> 0]
    ELSE LET f == ReaderFill(content, rd, n)
         IN  [off |-> f.off, avail |-> f.avail - ReadLen(content, rd, n)]

\* The caller's buffer after the read: the first ReadLen bytes are
\* overwritten, the rest keeps what it held.
ReadInto(buffer, content, rd, n) ==
    LET k  == ReadLen(content, rd, n)
        at == ReadAt(content, rd, n)
    IN  [i \in 1..Len(buffer) |-> IF i <= k THEN content[at + i] ELSE buffer[i]]

(***************************************************************************)
(* compare_files (lib.rs 142-194) as a machine over the record             *)
(*   [pc, rd1, rd2, buffer1, buffer2, pos, opened, reads, ret].            *)
(* pc is "meta" before the metadata calls, "open" before the files are     *)
(* opened, "loop" at the start of a loop iteration, "return" afterwards.   *)
(***************************************************************************)
Zeros(n) == [i \in 1..n |-> 0]

CfStart ==
    [pc |-> "meta", rd1 |-> NewReader, rd2 |-> NewReader,
     buffer1 |-> <<>>, buffer2 |-> <<>>, pos |-> 0,
     opened |-> FALSE, reads |-> 0, ret |-> Pending]

CfReturn(st, d) == [st EXCEPT !.pc = "return", !.ret = Ok(d)]

\* Mutant of CfMeta: quick mode does not short-circuit on the lengths.
CfMetaNoQuickExit(len1, len2, quick, st) ==
    IF len1 = 0 \/ len2 = 0
    THEN IF len1 = len2 THEN CfReturn(st, Equal) ELSE CfReturn(st, Different(0))
    ELSE [st EXCEPT !.pc = "open"]

\* Mutant of CfMeta: zero lengths are not decided from the metadata.
CfMetaNoEmptyExit(len1, len2, quick, st) ==
    IF quick /\ len1 # len2
    THEN CfReturn(st, Different(0))
    ELSE [st EXCEPT !.pc = "open"]

\* lib.rs 148-160: the decisions taken from the metadata lengths alone.
CfMeta(len1, len2, quick, st) ==
    IF len1 = 0 \/ len2 = 0
    THEN IF len1 = len2 THEN CfReturn(st, Equal) ELSE CfReturn(st, Different(0))
    ELSE IF quick /\ len1 # len2
         THEN CfReturn(st, Different(0))
         ELSE [st EXCEPT !.pc = "open"]

\* lib.rs 162-167: both files opened, both buffers zero-filled, pos = 0.
CfOpen(chunk, st) ==
    [st EXCEPT !.pc = "loop", !.opened = TRUE,
               !.buffer1 = Zeros(chunk), !.buffer2 = Zeros(chunk), !.pos = 0]

\* Mutant of SlicesDiffer: only the overlapping range is compared, so a
\* stream that ran out is not seen as a difference.
SlicesDifferOverlapOnly(b1, l1, b2, l2) ==
    \E i \in 1..Min(l1, l2) : b1[i] # b2[i]

\* lib.rs 177: buffer1[..len1] != buffer2[..len2] (slices of different
\* lengths are different).
SlicesDiffer(b1, l1, b2, l2) ==
    l1 # l2 \/ \E i \in 1..l1 : b1[i] # b2[i]

\* lib.rs 182-186: the indices i in 0..len1 with buffer1[i] != buffer2[i];
\* buffer2 is read up to len1, beyond len2 when len1 > len2.
MismatchIdx(b1, l1, b2) == {i \in 0..(l1 - 1) : b1[i + 1] # b2[i + 1]}

SetMin(S) == CHOOSE x \in S : \A y \in S : x <= y

\* Mutant of DiffOffset: the index is reported relative to the chunk.
DiffOffsetChunkRelative(pos, b1, l1, b2, l2) ==
    IF MismatchIdx(b1, l1, b2) # {}
    THEN SetMin(MismatchIdx(b1, l1, b2))
    ELSE Min(l1, l2)

\* Mutant of DiffOffset: pos is advanced by len1 before the offset is taken.
DiffOffsetAfterAdvance(pos, b1, l1, b2, l2) ==
    IF MismatchIdx(b1, l1, b2) # {}
    THEN pos + l1 + SetMin(MismatchIdx(b1, l1, b2))
    ELSE pos + l1 + Min(l1, l2)

\* lib.rs 182-189: the offset reported once the slices differ.
DiffOffset(pos, b1, l1, b2, l2) ==
    IF MismatchIdx(b1, l1, b2) # {}
    THEN pos + SetMin(MismatchIdx(b1, l1, b2))
    ELSE pos + Min(l1, l2)

\* Mutant of AdvancePos: pos counts the chunks read, not the bytes.
AdvancePosCountsChunks(pos, l1) == pos + 1

\* lib.rs 192: pos += len1.
AdvancePos(pos, l1) == pos + l1

\* Mutant of CfLoop: quick mode reports the exact offset too.
CfLoopExactInQuick(file1, file2, quick, chunk, st) ==
    LET l1 == ReadLen(file1, st.rd1, chunk)
        l2 == ReadLen(file2, st.rd2, chunk)
        b1 == ReadInto(st.buffer1, file1, st.rd1, chunk)
        b2 == ReadInto(st.buffer2, file2, st.rd2, chunk)
        rd == [st EXCEPT !.rd1 = ReaderAfter(file1, st.rd1, chunk),
                         !.rd2 = ReaderAfter(file2, st.rd2, chunk),
                         !.buffer1 = b1, !.buffer2 = b2,
                         !.reads = st.reads + 1]
    IN  IF l1 = 0 /\ l2 = 0
        THEN CfReturn(rd, Equal)
        ELSE IF SlicesDiffer(b1, l1, b2, l2)
             THEN CfReturn(rd, Different(DiffOffset(st.pos, b1, l1, b2, l2)))
             ELSE [rd EXCEPT !.pos = AdvancePos(st.pos, l1)]

\* lib.rs 169-193: one iteration of the loop.
CfLoop(file1, file2, quick, chunk, st) ==
    LET l1 == ReadLen(file1, st.rd1, chunk)
        l2 == ReadLen(file2, st.rd2, chunk)
        b1 == ReadInto(st.buffer1, file1, st.rd1, chunk)
        b2 == ReadInto(st.buffer2, file2, st.rd2, chunk)
        rd == [st EXCEPT !.rd1 = ReaderAfter(file1, st.rd1, chunk),
                         !.rd2 = ReaderAfter(file2, st.rd2, chunk),
                         !.buffer1 = b1, !.buffer2 = b2,
                         !.reads = st.reads + 1]
    IN  IF l1 = 0 /\ l2 = 0
        THEN CfReturn(rd, Equal)
        ELSE IF SlicesDiffer(b1, l1, b2, l2)
             THEN IF quick
                  THEN CfReturn(rd, Different(0))
                  ELSE CfReturn(rd, Different(DiffOffset(st.pos, b1, l1, b2, l2)))
             ELSE [rd EXCEPT !.pos = AdvancePos(st.pos, l1)]

\* One step of compare_files from state st.
CfStep(file1, file2, quick, chunk, st) ==
    CASE st.pc = "meta" -> CfMeta(Len(file1), Len(file2), quick, st)
      [] st.pc = "open" -> CfOpen(chunk, st)
      [] st.pc = "loop" -> CfLoop(file1, file2, quick, chunk, st)
      [] OTHER -> st

\* compare_files run to its return from state st: the state after one step
\* is computed, then the run goes on from it.
RECURSIVE CfRun(_, _, _, _, _)
CfRun(file1, file2, quick, chunk, st) ==
    IF st.pc = "return"
    THEN st.ret
    ELSE CHOOSE r \in {CfRun(file1, file2, quick, chunk, next) :
                          next \in {CfStep(file1, file2, quick, chunk, st)}} : TRUE

\* The value compare_files(path1, path2, quick, chunk_size) returns for two
\* readable regular files with the given contents.
compare_files(file1, file2, quick, chunk) ==
    CfRun(file1, file2, quick, chunk, CfStart)

(***************************************************************************)
(* The two directory trees compare_dirs walks.  A tree maps each relative  *)
(* path to what is found there; Path1 and Path2 are the paths entry.path() *)
(* yields under dir1 and dir2.                                             *)
(***************************************************************************)
\* File names: "r" stands for a name that is not valid Unicode, for which
\* OsString::into_string and OsStr::to_str fail.
TopNames == {"a", "r"}
SubNames == {"c"}
AllNames == TopNames \cup SubNames
Utf8(name) == name # "r"

\* The relative paths at which the trees hold entries: two names at the top
\* and one below the first.
RelPaths ==
    {<<n>> : n \in TopNames} \cup {<<"a", m>> : m \in SubNames}
FramePaths == {<<>>} \cup RelPaths

\* Contents of the regular files of the left and of the right tree.
LeftContents == {<<1, 0>>}
RightContents == {<<1, 0>>, <<1, 1>>}
\* Lengths fs::metadata may report for a directory.
DirLens == {0, 2}

NoEntry == [kind |-> "none"]
DirNode == [kind |-> "dir"]
FileNode(c) == [kind |-> "file", content |-> c]
Nodes(C) == {NoEntry, DirNode} \cup {FileNode(c) : c \in C}

Parent(p) == SubSeq(p, 1, Len(p) - 1)

\* An entry exists only inside a directory.
WellFormed(t) ==
    \A p \in RelPaths :
        (Len(p) > 1 /\ t[p].kind # "none") => t[Parent(p)].kind = "dir"

Trees(C) == {t \in [RelPaths -> Nodes(C)] : WellFormed(t)}

NodeAt(t, p) ==
    IF p = <<>> THEN DirNode ELSE IF p \in RelPaths THEN t[p] ELSE NoEntry

\* Path::is_dir and Path::exists (lib.rs 258, 260, 270).
IsDirAt(t, p) == NodeAt(t, p).kind = "dir"
ExistsAt(t, p) == NodeAt(t, p).kind # "none"

\* The names fs::read_dir yields for directory p (lib.rs 235-240).
ChildNames(t, p) == {n \in AllNames : ExistsAt(t, p \o <<n>>)}

\* The orders in which read_dir may yield a set of names.
Orders(S) ==
    {o \in [1..Cardinality(S) -> S] : \A i, j \in 1..Cardinality(S) : o[i] = o[j] => i = j}

\* Mutant of Path2: the path of a dir2 entry rebuilt under dir1.
Path2RootedLeft(p) == <<"dir1">> \o p

\* entry.path() of an entry of dir1 and of dir2 (lib.rs 252, 286).
Path1(p) == <<"dir1">> \o p
Path2(p) == <<"dir2">> \o p

\* A fault: the one node of the two trees at which an I/O error occurs.
\* what = "io": its listing (a directory) or its opening (a regular file)
\* fails; what = "entry": read_dir yields Err in place of its DirEntry.
NoFault == [side |-> 0, path |-> <<>>, what |-> "none"]
Faulty(flt, side, p) == flt = [side |-> side, path |-> p, what |-> "io"]
EntryFails(flt, side, p) == flt = [side |-> side, path |-> p, what |-> "entry"]

\* lib.rs 235-240: the names of the entries read_dir yields for directory f
\* that pass filter_map(|e| e.ok()).
Listed(flt, side, t, f) ==
    {n \in ChildNames(t, f) : ~EntryFails(flt, side, f \o <<n>>)}

(***************************************************************************)
(* State                                                                   *)
(***************************************************************************)
VARIABLES
    file1,       \* content of the file at path1
    file2,       \* content of the file at path2
    quick,       \* the quick argument
    chunk_size,  \* the chunk_size argument
    cf,          \* the running compare_files call
    fs1,         \* the tree under dir1
    fs2,         \* the tree under dir2
    dirlen,      \* the length fs::metadata reports for a directory
    fault,       \* the node whose listing or opening fails, if any
    frames,      \* the compare_dirs calls, by the relative path compared
    exit,        \* what main did with the result of compare_dirs
    call         \* a call of parse_chunk_size or of as_number

vars == <<file1, file2, quick, chunk_size, cf, fs1, fs2, dirlen, fault, frames,
          exit, call>>
cfVars == <<file1, file2, cf>>
dirVars == <<fs1, fs2, dirlen, fault, frames>>

\* main has not finished; no call was made.
Running == [code |-> -1, diffs_only |-> FALSE]
NoCall == [fn |-> "none", arg |-> <<>>, ret |-> Pending]

\* A compare_dirs call that was not made.
IdleFrame ==
    [pc |-> "idle", entries1 |-> <<>>, entries2 |-> <<>>, dir1_names |-> {},
     slot1 |-> <<>>, slot2 |-> <<>>, results1 |-> <<>>, ret |-> Pending]

EmptyTree == [p \in RelPaths |-> NoEntry]

(***************************************************************************)
(* The file comparator: one call of compare_files on two regular files.    *)
(***************************************************************************)
Init ==
    /\ file1 \in BytesUpTo(MaxLen)
    /\ file2 \in BytesUpTo(MaxLen)
    /\ quick \in BOOLEAN
    /\ chunk_size \in 0..MaxChunk
    /\ cf = CfStart
    /\ fs1 = EmptyTree /\ fs2 = EmptyTree
    /\ dirlen = 0 /\ fault = NoFault
    /\ frames = [f \in FramePaths |-> IdleFrame]
    /\ exit = Running /\ call = NoCall

\* lib.rs 148-160
Metadata ==
    /\ cf.pc = "meta"
    /\ cf' = CfMeta(Len(file1), Len(file2), quick, cf)
    /\ UNCHANGED <<file1, file2, quick, chunk_size>>
    /\ UNCHANGED <<dirVars, exit, call>>

\* lib.rs 162-167
OpenFiles ==
    /\ cf.pc = "open"
    /\ cf' = CfOpen(chunk_size, cf)
    /\ UNCHANGED <<file1, file2, quick, chunk_size>>
    /\ UNCHANGED <<dirVars, exit, call>>

\* lib.rs 169-193
LoopIteration ==
    /\ cf.pc = "loop"
    /\ cf' = CfLoop(file1, file2, quick, chunk_size, cf)
    /\ UNCHANGED <<file1, file2, quick, chunk_size>>
    /\ UNCHANGED <<dirVars, exit, call>>

Next == Metadata \/ OpenFiles \/ LoopIteration

Spec == Init /\ [][Next]_vars

Returned == cf.pc = "return"
Result == cf.ret[2]

(***************************************************************************)
(* Properties of the file comparator                                       *)
(***************************************************************************)
\* The smallest 0-based index at which two byte strings differ, the length
\* of the shorter one when it is a prefix of the other.
FirstDivergence(a, b) ==
    LET D == {i \in 0..(Min(Len(a), Len(b)) - 1) : a[i + 1] # b[i + 1]}
    IN  IF D # {} THEN SetMin(D) ELSE Min(Len(a), Len(b))

IsPrefix(a, b) == Len(a) <= Len(b) /\ \A i \in 1..Len(a) : a[i] = b[i]
StrictPrefix(a, b) == IsPrefix(a, b) /\ Len(a) < Len(b)

\* C1: a non-quick comparison of (file1, file2) returns the same outcome
\* for every chunk size >= 1.
C1_ChunkSizeIndependent ==
    (Returned /\ ~quick /\ chunk_size >= 1) =>
        \A c \in 1..MaxChunk : compare_files(file1, file2, FALSE, c) = cf.ret

\* C2: when one non-empty file is a strict prefix of the other, the
\* non-quick comparison returns Different(len(shorter)), in both argument
\* orders, for every chunk size >= 1.
C2_PrefixOffset ==
    (/\ Returned /\ ~quick /\ chunk_size >= 1
     /\ Len(file1) > 0 /\ Len(file2) > 0
     /\ (StrictPrefix(file1, file2) \/ StrictPrefix(file2, file1))) =>
        Result = Different(Min(Len(file1), Len(file2)))

\* C3: compare_files(a, b, quick, c) = compare_files(b, a, quick, c) for
\* every quick and every chunk size >= 1.
C3_Symmetric ==
    (Returned /\ chunk_size >= 1) =>
        compare_files(file2, file1, quick, chunk_size) = cf.ret

\* C9: for two files of equal non-zero length that differ, the non-quick
\* comparison returns Different(k), k the smallest index at which the bytes
\* differ, for every chunk size >= 1.
C9_FirstDifferingIndex ==
    (/\ Returned /\ ~quick /\ chunk_size >= 1
     /\ Len(file1) = Len(file2) /\ Len(file1) > 0 /\ file1 # file2) =>
        Result = Different(FirstDivergence(file1, file2))

\* C9 witness: two files of the same length differ first inside a later
\* chunk, past its first byte, and that index is reported.
C9_Witness ==
    /\ Returned /\ ~quick /\ chunk_size = 2
     /\ Len(file1) = Len(file2) /\ file1 # file2
     /\ FirstDivergence(file1, file2) = 3
     /\ Result = Different(3)

\* C10: compare_files returns Equal exactly when the two files are
\* byte-identical, in quick and non-quick mode, for every chunk size >= 1.
C10_EqualIffIdentical ==
    (Returned /\ chunk_size >= 1) => ((Result = Equal) <=> (file1 = file2))

\* C10 witness: a file of several chunks compared with an identical one
\* returns Equal after reading it through in quick mode.
C10_Witness ==
    /\ Returned /\ quick /\ chunk_size = 1
    /\ file1 = file2 /\ Len(file1) = 3
    /\ cf.reads = 4
    /\ Result = Equal

(***************************************************************************)
(* compare_dirs (lib.rs 225-310).  A frame is one call of compare_dirs,    *)
(* named by the relative path f it compares (dir1/f against dir2/f).  Its  *)
(* pc is "idle" (not called), "list" (called), "par1" (the tasks over the  *)
(* dir1 entries run), "par2" (the tasks over the dir2 entries run), "done" *)
(* (returned).  slot1[i] and slot2[i] hold what the task of the i-th entry *)
(* produced; collect() concatenates them in entry order.                   *)
(***************************************************************************)
Todo == <<"todo">>
Waiting == <<"wait">>
Done(v) == <<"done", v>>

RECURSIVE Flatten(_)
Flatten(ss) == IF ss = <<>> THEN <<>> ELSE Head(ss) \o Flatten(Tail(ss))

\* fs::metadata(path).len() of a node.
MetaLen(node) == IF node.kind = "file" THEN Len(node.content) ELSE dirlen

\* compare_files (lib.rs 142-194) on two existing paths, the first a regular
\* file: the metadata checks; File::open fails on an unreadable file; the
\* first read of an opened directory fails.
compare_files_at(n1, n2, unreadable) ==
    LET m == CfMeta(MetaLen(n1), MetaLen(n2), quick, CfStart)
    IN  IF m.pc = "return" THEN m.ret
        ELSE IF unreadable THEN Err("open")
        ELSE IF n2.kind = "dir" THEN Err("read")
        ELSE CfRun(n1.content, n2.content, quick, chunk_size, m)

\* lib.rs 235-240: fs::read_dir(dir1)? and fs::read_dir(dir2)?.
ListFails(flt, f) == Faulty(flt, 1, f) \/ Faulty(flt, 2, f)

\* lib.rs 243-246: the names of dir1 that convert to a String.
Dir1Names(entries1) == {entries1[i] : i \in {j \in DOMAIN entries1 : Utf8(entries1[j])}}

\* Mutant of Recurses: a directory of dir1 is descended into whatever dir2
\* holds under its name.
RecursesOnLeftDir(p) == IsDirAt(fs1, p)

\* lib.rs 258-260: the entry is a directory on both sides.
Recurses(p) == IsDirAt(fs1, p) /\ IsDirAt(fs2, p)

\* Mutant of FileResult: a failed comparison is dropped from the result.
FileResultDropsError(p, r) ==
    IF r[1] = "Ok" THEN << <<Path1(p), r[2]>> >> ELSE <<>>

\* lib.rs 271-274: the entry made of what compare_files returned.
FileResult(p, r) ==
    IF r[1] = "Ok" THEN << <<Path1(p), r[2]>> >> ELSE << <<Path1(p), Error(r[2])>> >>

\* lib.rs 261-264: the entries made of what the recursive call returned.
RecurseResult(p, r) ==
    IF r[1] = "Ok" THEN r[2] ELSE << <<Path1(p), Error(r[2])>> >>

\* lib.rs 258-278: what the task of the dir1 entry at p yields when it does
\* not recurse.
Entry1Result(flt, p) ==
    IF IsDirAt(fs1, p)
    THEN << <<Path1(p), LeftOnly>> >>
    ELSE IF ExistsAt(fs2, p)
         THEN FileResult(p, compare_files_at(NodeAt(fs1, p), NodeAt(fs2, p),
                                             Faulty(flt, 1, p) \/ Faulty(flt, 2, p)))
         ELSE << <<Path1(p), LeftOnly>> >>

\* lib.rs 286-303: what the task of the dir2 entry at p yields.
Entry2Result(names, p) ==
    IF Utf8(p[Len(p)]) /\ p[Len(p)] \in names
    THEN <<>>
    ELSE << <<Path2(p), RightOnly>> >>

\* Mutant of AllDone: the join waits for no task.
NoneAwaited(slots) == TRUE

\* Mutant of AllDone: a task that produced an Error entry holds up the join.
AllDoneUnlessError(slots) ==
    \A i \in DOMAIN slots :
        /\ slots[i][1] = "done"
        /\ \A k \in DOMAIN slots[i][2] : ~IsError(slots[i][2][k][2])

\* The join of a parallel iterator: every task has produced its part.
AllDone(slots) == \A i \in DOMAIN slots : slots[i][1] = "done"

\* collect(): the parts in entry order.
Collect(slots) == Flatten([i \in DOMAIN slots |-> IF slots[i][1] = "done" THEN slots[i][2] ELSE <<>>])

(***************************************************************************)
(* The directory differ: one call compare_dirs(dir1, dir2, quick,          *)
(* chunk_size) and the calls it makes.                                     *)
(***************************************************************************)
FaultSites ==
    {NoFault}
    \cup {[side |-> sd, path |-> p, what |-> "io"] : sd \in {1, 2}, p \in FramePaths}
    \cup {[side |-> sd, path |-> p, what |-> "entry"] : sd \in {1, 2}, p \in RelPaths}

InitDirs ==
    /\ file1 = <<>> /\ file2 = <<>> /\ cf = CfStart
    /\ quick \in BOOLEAN
    /\ chunk_size = 1
    /\ fs1 \in Trees(LeftContents)
    /\ fs2 \in Trees(RightContents)
    /\ dirlen \in DirLens
    /\ fault \in FaultSites
    /\ fault # NoFault => ExistsAt(IF fault.side = 1 THEN fs1 ELSE fs2, fault.path)
    /\ frames = [f \in FramePaths |->
                    IF f = <<>> THEN [IdleFrame EXCEPT !.pc = "list"] ELSE IdleFrame]
    /\ exit = Running /\ call = NoCall

\* lib.rs 235-246: both directories are listed, or the call returns Err.
ListDirs(f) ==
    /\ frames[f].pc = "list"
    /\ IF ListFails(fault, f)
       THEN frames' = [frames EXCEPT ![f].pc = "done", ![f].ret = Err("io")]
       ELSE \E e1 \in Orders(Listed(fault, 1, fs1, f)),
                  e2 \in Orders(Listed(fault, 2, fs2, f)) :
                frames' = [frames EXCEPT
                    ![f].pc = "par1",
                    ![f].entries1 = e1,
                    ![f].entries2 = e2,
                    ![f].dir1_names = Dir1Names(e1),
                    ![f].slot1 = [i \in DOMAIN e1 |-> Todo],
                    ![f].slot2 = [i \in DOMAIN e2 |-> Todo]]
    /\ UNCHANGED <<quick, chunk_size, fs1, fs2, dirlen, fault>>
    /\ UNCHANGED <<cfVars, exit, call>>

\* lib.rs 251-279: the task of the i-th entry of dir1.  For a directory on
\* both sides it calls compare_dirs; otherwise it yields its entry.
Task1(f, i) ==
    /\ frames[f].pc = "par1"
    /\ i \in DOMAIN frames[f].slot1
    /\ frames[f].slot1[i] = Todo
    /\ LET p == f \o <<frames[f].entries1[i]>>
       IN  IF Recurses(p)
           THEN frames' = [frames EXCEPT ![f].slot1[i] = Waiting,
                                         ![p].pc = "list"]
           ELSE frames' = [frames EXCEPT ![f].slot1[i] = Done(Entry1Result(fault, p))]
    /\ UNCHANGED <<quick, chunk_size, fs1, fs2, dirlen, fault>>
    /\ UNCHANGED <<cfVars, exit, call>>

\* lib.rs 261-264: the recursive call returned.
Task1Return(f, i) ==
    /\ frames[f].pc = "par1"
    /\ i \in DOMAIN frames[f].slot1
    /\ frames[f].slot1[i] = Waiting
    /\ LET p == f \o <<frames[f].entries1[i]>>
       IN  /\ frames[p].pc = "done"
           /\ frames' = [frames EXCEPT
                  ![f].slot1[i] = Done(RecurseResult(p, frames[p].ret))]
    /\ UNCHANGED <<quick, chunk_size, fs1, fs2, dirlen, fault>>
    /\ UNCHANGED <<cfVars, exit, call>>

\* lib.rs 280: results1 is collected once every dir1 task has finished.
Join1(f) ==
    /\ frames[f].pc = "par1"
    /\ AllDone(frames[f].slot1)
    /\ frames' = [frames EXCEPT ![f].pc = "par2",
                                ![f].results1 = Collect(frames[f].slot1)]
    /\ UNCHANGED <<quick, chunk_size, fs1, fs2, dirlen, fault>>
    /\ UNCHANGED <<cfVars, exit, call>>

\* lib.rs 285-304: the task of the j-th entry of dir2.
Task2(f, j) ==
    /\ frames[f].pc = "par2"
    /\ j \in DOMAIN frames[f].slot2
    /\ frames[f].slot2[j] = Todo
    /\ frames' = [frames EXCEPT ![f].slot2[j] =
           Done(Entry2Result(frames[f].dir1_names, f \o <<frames[f].entries2[j]>>))]
    /\ UNCHANGED <<quick, chunk_size, fs1, fs2, dirlen, fault>>
    /\ UNCHANGED <<cfVars, exit, call>>

\* lib.rs 305-309: results2 is collected and appended to results1.
Join2(f) ==
    /\ frames[f].pc = "par2"
    /\ AllDone(frames[f].slot2)
    /\ frames' = [frames EXCEPT
           ![f].pc = "done",
           ![f].ret = Ok(frames[f].results1 \o Collect(frames[f].slot2))]
    /\ UNCHANGED <<quick, chunk_size, fs1, fs2, dirlen, fault>>
    /\ UNCHANGED <<cfVars, exit, call>>

\* The top-level call and what it returned.
DirsReturned == frames[<<>>].pc = "done"
DirsRet == frames[<<>>].ret
DirsOk == DirsReturned /\ DirsRet[1] = "Ok"
Results == DirsRet[2]

(***************************************************************************)
(* main for a directory (main.rs 44-82): the exit code.                    *)
(***************************************************************************)
EXIT_IDENTICAL == 0
EXIT_DIFFERENT == 1
EXIT_ERROR == 2

\* main.rs 49-58: the entries the loop does not skip, and the two flags.
Shown(results, diffs_only) ==
    {i \in DOMAIN results : ~(diffs_only /\ results[i][2] = Equal)}
HasError(results, diffs_only) ==
    \E i \in Shown(results, diffs_only) : IsError(results[i][2])
HasDiff(results, diffs_only) ==
    \E i \in Shown(results, diffs_only) : results[i][2] # Equal

\* Mutant of ExitCodeDirs: has_diff is tested before has_error.
ExitCodeDirsDiffFirst(ret, diffs_only) ==
    IF ret[1] = "Err"
    THEN EXIT_ERROR
    ELSE IF HasDiff(ret[2], diffs_only) THEN EXIT_DIFFERENT
    ELSE IF HasError(ret[2], diffs_only) THEN EXIT_ERROR
    ELSE EXIT_IDENTICAL

\* main.rs 45-82: the exit code for what compare_dirs returned.
ExitCodeDirs(ret, diffs_only) ==
    IF ret[1] = "Err"
    THEN EXIT_ERROR
    ELSE IF HasError(ret[2], diffs_only) THEN EXIT_ERROR
    ELSE IF HasDiff(ret[2], diffs_only) THEN EXIT_DIFFERENT
    ELSE EXIT_IDENTICAL

\* main.rs 45-82: compare_dirs has returned; main reports and exits, with
\* or without --diffs-only.
MainDirs ==
    /\ DirsReturned
    /\ exit = Running
    /\ \E d \in BOOLEAN :
           exit' = [code |-> ExitCodeDirs(DirsRet, d), diffs_only |-> d]
    /\ UNCHANGED <<quick, chunk_size, call>>
    /\ UNCHANGED <<cfVars, dirVars>>

NextDirs ==
    \/ MainDirs
    \/ \E f \in FramePaths :
        \/ ListDirs(f)
        \/ Join1(f)
        \/ Join2(f)
        \/ \E i \in 1..Cardinality(AllNames) :
              \/ Task1(f, i)
              \/ Task1Return(f, i)
              \/ Task2(f, i)

SpecDirs == InitDirs /\ [][NextDirs]_vars

(***************************************************************************)
(* compare_dirs evaluated one entry at a time, in a fixed listing order,   *)
(* with fault flt: the sequential reading of lib.rs 225-310.               *)
(***************************************************************************)
ListingOrder(S) == CHOOSE o \in Orders(S) : TRUE

RECURSIVE SeqCompareDirs(_, _)
SeqCompareDirs(flt, f) ==
    IF ListFails(flt, f)
    THEN Err("io")
    ELSE LET e1 == ListingOrder(Listed(flt, 1, fs1, f))
             e2 == ListingOrder(Listed(flt, 2, fs2, f))
             r1 == Flatten([i \in DOMAIN e1 |->
                       IF Recurses(f \o <<e1[i]>>)
                       THEN RecurseResult(f \o <<e1[i]>>,
                                          SeqCompareDirs(flt, f \o <<e1[i]>>))
                       ELSE Entry1Result(flt, f \o <<e1[i]>>)])
             r2 == Flatten([j \in DOMAIN e2 |->
                       Entry2Result(Dir1Names(e1), f \o <<e2[j]>>)])
         IN  Ok(r1 \o r2)

(***************************************************************************)
(* Properties of the directory differ                                      *)
(***************************************************************************)
Range(sq) == {sq[i] : i \in DOMAIN sq}
Count(sq, e) == Cardinality({i \in DOMAIN sq : sq[i] = e})
SeqToBag(sq) == [e \in Range(sq) |-> Count(sq, e)]

\* The entries of a result whose path is one of the given paths.
EntriesAt(sq, paths) == {i \in DOMAIN sq : sq[i][1] \in paths}

\* The directory at relative path f was walked by a call that returned Ok.
Walked(f) == frames[f].pc = "done" /\ frames[f].ret[1] = "Ok"

\* The name at p is a directory on one side and a regular file on the other.
TypeMismatch(p) ==
    \/ NodeAt(fs1, p).kind = "dir" /\ NodeAt(fs2, p).kind = "file"
    \/ NodeAt(fs1, p).kind = "file" /\ NodeAt(fs2, p).kind = "dir"

\* C4: a name present in both directories with mismatched types yields
\* exactly one entry, and its outcome is LeftOnly (stated for the names that
\* are valid Unicode).
C4_TypeMismatchLeftOnly ==
    DirsOk =>
        \A p \in RelPaths :
            (Walked(Parent(p)) /\ TypeMismatch(p) /\ Utf8(p[Len(p)])) =>
                /\ Cardinality(EntriesAt(Results, {Path1(p), Path2(p)})) = 1
                /\ \A i \in EntriesAt(Results, {Path1(p), Path2(p)}) :
                       Results[i][2] = LeftOnly

\* C5 as stated: every entry of the result, RightOnly entries included,
\* carries a path rooted at dir1.
C5_AllPathsRootedLeft ==
    DirsOk => \A i \in DOMAIN Results : Results[i][1][1] = "dir1"

\* C5 as amended: every entry whose outcome is not RightOnly carries a path
\* rooted at dir1, at every depth, and every RightOnly entry carries a path
\* rooted at dir2.
C5_PathRoots ==
    DirsOk =>
        \A i \in DOMAIN Results :
            Results[i][1][1] = (IF Results[i][2] = RightOnly THEN "dir2" ELSE "dir1")

\* C5 witness: a result with a RightOnly entry below the top level and an
\* entry of another outcome below the top level.
C5_Witness ==
    /\ DirsOk
    /\ \E i \in DOMAIN Results :
           Results[i] = <<Path2(<<"a", "c">>), RightOnly>>
    /\ \E i \in DOMAIN Results :
           Results[i][1] = Path1(<<"r">>) /\ Results[i][2] # RightOnly

\* The entries the task of the entry at p is responsible for: the entry at
\* the dir1 path itself and everything strictly below p on either side.
Below(p, path) ==
    Len(path) > Len(p) + 1 /\ SubSeq(path, 2, Len(p) + 1) = p
OwnedBy(p, e) == e[1] = Path1(p) \/ Below(p, e[1])

\* The fault hits the task of the entry at p: p is visited, and it is a
\* shared subdirectory whose listing fails or a pair of regular files whose
\* comparison fails on open.
FaultHits(p) ==
    /\ fault.what = "io" /\ fault.path = p /\ p # <<>>
    /\ Walked(Parent(p))
    /\ \/ Recurses(p)
       \/ /\ NodeAt(fs1, p).kind = "file" /\ NodeAt(fs2, p).kind = "file"
          /\ compare_files_at(NodeAt(fs1, p), NodeAt(fs2, p), TRUE) = Err("open")

FaultFree == SeqCompareDirs(NoFault, <<>>)[2]

\* C6: an I/O failure confined to one entry (a matched file pair, a shared
\* subdirectory) yields exactly one Error entry at that entry's path, every
\* other entry is as in the walk without the failure, and the call
\* returns Ok.
C6_FailureIsolated ==
    \A p \in RelPaths :
        (DirsReturned /\ FaultHits(p)) =>
            /\ DirsRet[1] = "Ok"
            /\ Cardinality({i \in DOMAIN Results : OwnedBy(p, Results[i])}) = 1
            /\ \A i \in DOMAIN Results :
                   OwnedBy(p, Results[i]) =>
                       Results[i][1] = Path1(p) /\ IsError(Results[i][2])
            /\ LET Other(e) == ~OwnedBy(p, e)
               IN  SeqToBag(SelectSeq(Results, Other)) =
                       SeqToBag(SelectSeq(FaultFree, Other))

\* C6 witness: the listing of the shared subdirectory a fails while the
\* sibling r is compared; the result holds the Error entry and the sibling's.
C6_Witness ==
    /\ DirsOk /\ FaultHits(<<"a">>)
    /\ ExistsAt(fs1, <<"a", "c">>) /\ ExistsAt(fs2, <<"a", "c">>)
    /\ \E i \in DOMAIN Results : Results[i] = <<Path1(<<"a">>), Error("io")>>
    /\ \E i \in DOMAIN Results : Results[i] = <<Path1(<<"r">>), Different(1)>>

\* C7 as stated: for one directory level holding only regular files the
\* result has exactly one entry per name of the union of the two listings:
\* the comparator's outcome for a name in both, LeftOnly for a name of dir1
\* only, RightOnly for a name of dir2 only.
C7_OneEntryPerName ==
    (/\ DirsOk /\ fault = NoFault
     /\ \A p \in RelPaths : NodeAt(fs1, p).kind # "dir" /\ NodeAt(fs2, p).kind # "dir") =>
        /\ Len(Results) = Cardinality(ChildNames(fs1, <<>>) \cup ChildNames(fs2, <<>>))
        /\ \A n \in ChildNames(fs1, <<>>) \cup ChildNames(fs2, <<>>) :
               /\ Cardinality(EntriesAt(Results, {Path1(<<n>>), Path2(<<n>>)})) = 1
               /\ \A i \in EntriesAt(Results, {Path1(<<n>>), Path2(<<n>>)}) :
                      Results[i][2] =
                          IF n \in ChildNames(fs1, <<>>) /\ n \in ChildNames(fs2, <<>>)
                          THEN compare_files(fs1[<<n>>].content, fs2[<<n>>].content,
                                             quick, chunk_size)[2]
                          ELSE IF n \in ChildNames(fs1, <<>>) THEN LeftOnly ELSE RightOnly

\* C8: whatever the order in which the tasks run and finish, the call
\* returns what the one-at-a-time evaluation returns, up to the order of
\* the entries.
C8_SameAsSequential ==
    DirsReturned =>
        /\ DirsRet[1] = SeqCompareDirs(fault, <<>>)[1]
        /\ DirsRet[1] = "Ok" =>
               SeqToBag(Results) = SeqToBag(SeqCompareDirs(fault, <<>>)[2])
        /\ DirsRet[1] = "Err" => DirsRet = SeqCompareDirs(fault, <<>>)

\* C8 witness: both subdirectories were recursed into, the result has
\* several entries, and they come in another order than the sequential one.
C8_Witness ==
    /\ DirsOk
    /\ Recurses(<<"a">>) /\ Recurses(<<"r">>)
    /\ Len(Results) >= 2
    /\ Results # SeqCompareDirs(fault, <<>>)[2]

(***************************************************************************)
(* Further properties of the file comparator                               *)
(***************************************************************************)
\* C11: in quick mode, when the metadata lengths differ, compare_files
\* returns Different(0) with no file opened and no read made before.
C11_QuickLengthExitBeforeOpen ==
    /\ (quick /\ Len(file1) # Len(file2)) => (~cf.opened /\ cf.reads = 0)
    /\ (Returned /\ quick /\ Len(file1) # Len(file2)) => Result = Different(0)

\* C11 witness: two non-empty files of different lengths, quick mode, the
\* call has returned Different(0) without opening.
C11_Witness ==
    /\ Returned /\ quick
    /\ Len(file1) = 2 /\ Len(file2) = 3
    /\ Result = Different(0) /\ ~cf.opened

\* C12: for every quick and chunk size, two zero-length files give Equal
\* and exactly one zero-length file, on either side, gives Different(0);
\* both without a file being opened.
C12_ZeroLength ==
    /\ (Len(file1) = 0 \/ Len(file2) = 0) => (~cf.opened /\ cf.reads = 0)
    /\ (Returned /\ Len(file1) = 0 /\ Len(file2) = 0) => Result = Equal
    /\ (Returned /\ ((Len(file1) = 0) # (Len(file2) = 0))) => Result = Different(0)

\* C12 witness: the second file alone is empty, non-quick mode, and the
\* call has returned Different(0).
C12_Witness ==
    /\ Returned /\ ~quick
    /\ Len(file1) = 2 /\ Len(file2) = 0
    /\ Result = Different(0) /\ ~cf.opened

\* C16: in quick mode every outcome is Equal or Different(0), and files of
\* equal length with differing content give Different(0), for every chunk
\* size >= 1.
C16_QuickOutcomes ==
    (Returned /\ quick) =>
        /\ Result \in {Equal, Different(0)}
        /\ (chunk_size >= 1 /\ Len(file1) = Len(file2) /\ file1 # file2) =>
               Result = Different(0)

\* C16 witness: quick mode, equal lengths, the first difference lies in a
\* later chunk at a non-zero index, and Different(0) is returned.
C16_Witness ==
    /\ Returned /\ quick /\ chunk_size = 2
    /\ Len(file1) = Len(file2) /\ FirstDivergence(file1, file2) = 3
    /\ cf.reads >= 2
    /\ Result = Different(0)

\* C17: whenever compare_files returns Different(o), 0 <= o and
\* o <= max(len(file1), len(file2)).
C17_OffsetInRange ==
    (Returned /\ IsDifferent(Result) /\ chunk_size >= 1) =>
        (0 <= Result[2] /\ Result[2] <= Max(Len(file1), Len(file2)))

\* C17 witness: the longer file is first, the comparison runs past the end
\* of the shorter one and an offset inside the longer file's tail is
\* returned.
C17_Witness ==
    /\ Returned /\ ~quick /\ chunk_size >= 1
    /\ StrictPrefix(file2, file1) /\ Len(file2) = 1 /\ Len(file1) = 4
    /\ Result = Different(3)

(***************************************************************************)
(* Further properties of the directory differ                              *)
(***************************************************************************)
\* The path is that of the entry at p, on either side, or lies below it.
AtOrBelow(p, path) ==
    Len(path) >= Len(p) + 1 /\ SubSeq(path, 2, Len(p) + 1) = p

\* The entry at p exists on one side only and its listing yields it.
OneSideOnly(p) ==
    /\ ExistsAt(fs1, p) # ExistsAt(fs2, p)
    /\ ~EntryFails(fault, 1, p) /\ ~EntryFails(fault, 2, p)

\* C13: a directory or file whose name is present in only one of the two
\* directories yields exactly one entry, LeftOnly or RightOnly, at its own
\* path, and nothing for what lies beneath it.
C13_OneSideOnlySingleEntry ==
    DirsOk =>
        \A p \in RelPaths :
            (Walked(Parent(p)) /\ OneSideOnly(p)) =>
                /\ Cardinality({i \in DOMAIN Results : AtOrBelow(p, Results[i][1])}) = 1
                /\ \A i \in DOMAIN Results :
                       AtOrBelow(p, Results[i][1]) =>
                           Results[i] = IF ExistsAt(fs1, p)
                                        THEN <<Path1(p), LeftOnly>>
                                        ELSE <<Path2(p), RightOnly>>

\* C13 witness: a directory with a file in it exists under dir1 only, another
\* under dir2 only; each yields its one entry.
C13_Witness ==
    /\ DirsOk
    /\ IsDirAt(fs1, <<"a">>) /\ ExistsAt(fs1, <<"a", "c">>) /\ ~ExistsAt(fs2, <<"a">>)
    /\ IsDirAt(fs2, <<"r">>) /\ ~ExistsAt(fs1, <<"r">>)
    /\ SeqToBag(Results) =
           SeqToBag(<< <<Path1(<<"a">>), LeftOnly>>, <<Path2(<<"r">>), RightOnly>> >>)

\* C14: a subdirectory present on both sides contributes the entries of its
\* descendants and no entry for itself; two trees made of empty matching
\* directories give an empty result with Ok.
C14_NoEntryForSharedDir ==
    (DirsReturned /\ fault = NoFault) =>
        /\ DirsRet[1] = "Ok"
        /\ \A p \in RelPaths :
               (Walked(Parent(p)) /\ Recurses(p)) =>
                   EntriesAt(Results, {Path1(p), Path2(p)}) = {}
        /\ (\A p \in RelPaths :
                /\ NodeAt(fs1, p).kind = NodeAt(fs2, p).kind
                /\ NodeAt(fs1, p).kind # "file") => Results = <<>>

\* An unreadable directory entry at p in a directory that was walked.
EntryFaultAt(p) ==
    fault.what = "entry" /\ fault.path = p /\ Walked(Parent(p))

\* C15: compare_dirs returns Err exactly when listing one of the two
\* top-level directories fails; every failure below (an unlistable shared
\* subdirectory, an unreadable file, an unreadable directory entry) shows
\* in the Ok result as an Error entry.
C15_ErrOnlyAtTopLevel ==
    DirsReturned =>
        /\ (DirsRet[1] = "Err") <=> ListFails(fault, <<>>)
        /\ DirsRet[1] = "Ok" =>
               \A p \in RelPaths :
                   (FaultHits(p) \/ EntryFaultAt(p)) =>
                       \E i \in EntriesAt(Results, {Path1(p), Path2(p)}) :
                           IsError(Results[i][2])

\* C19: for a directory comparison the exit code is 2 if any entry is Error
\* or the top-level call fails, otherwise 1 if any entry is not Equal,
\* otherwise 0, with and without --diffs-only.
C19_ExitCode ==
    exit # Running =>
        exit.code =
            IF DirsRet[1] = "Err" \/ \E i \in DOMAIN Results : IsError(Results[i][2])
            THEN 2
            ELSE IF \E i \in DOMAIN Results : Results[i][2] # Equal THEN 1 ELSE 0

\* C19 witness: with --diffs-only, a result holding an Equal entry, a
\* Different entry and an Error entry exits with 2.
C19_Witness ==
    /\ DirsOk /\ exit # Running /\ exit.diffs_only
    /\ \E i \in DOMAIN Results : Results[i][2] = Equal
    /\ \E i \in DOMAIN Results : IsError(Results[i][2])
    /\ \E i \in DOMAIN Results : Results[i][2] \in {LeftOnly, RightOnly}
    /\ exit.code = 2

(***************************************************************************)
(* FileDiff::as_number (lib.rs 67-75).  The result is a string, modelled   *)
(* as the sequence of its characters.                                      *)
(***************************************************************************)
MaxOffset == 120

Digits == <<"0", "1", "2", "3", "4", "5", "6", "7", "8", "9">>
DigitChars == {Digits[i] : i \in DOMAIN Digits}
DigitChar(d) == Digits[d + 1]
DigitVal(c) == CHOOSE d \in 0..9 : Digits[d + 1] = c

\* format!("{}", d) of an unsigned integer: its decimal digits.
RECURSIVE ToDecimal(_)
ToDecimal(n) ==
    IF n < 10
    THEN <<DigitChar(n)>>
    ELSE Append(ToDecimal(n \div 10), DigitChar(n % 10))

\* Mutant of as_number: Equal is written as "0".
as_numberEqualZero(d) ==
    CASE d = Equal -> <<"0">>
      [] IsDifferent(d) -> ToDecimal(d[2])
      [] d = LeftOnly -> <<"-", "2">>
      [] d = RightOnly -> <<"-", "3">>
      [] IsError(d) -> <<"-", "4">>

\* lib.rs 67-75
as_number(d) ==
    CASE d = Equal -> <<"-", "1">>
      [] IsDifferent(d) -> ToDecimal(d[2])
      [] d = LeftOnly -> <<"-", "2">>
      [] d = RightOnly -> <<"-", "3">>
      [] IsError(d) -> <<"-", "4">>

\* The outcomes as_number is applied to.
FileDiffs ==
    {Equal, LeftOnly, RightOnly}
        \cup {Different(o) : o \in 0..MaxOffset}
        \cup {Error(m) : m \in {"open", "metadata", "read_dir"}}

InitEncode ==
    /\ file1 = <<>> /\ file2 = <<>> /\ cf = CfStart
    /\ quick = FALSE /\ chunk_size = 1
    /\ fs1 = EmptyTree /\ fs2 = EmptyTree
    /\ dirlen = 0 /\ fault = NoFault
    /\ frames = [f \in FramePaths |-> IdleFrame]
    /\ exit = Running
    /\ \E d \in FileDiffs : call = [fn |-> "as_number", arg |-> d, ret |-> Pending]

\* main.rs 61, 86: the outcome is printed in machine-readable form.
AsNumber ==
    /\ call.fn = "as_number" /\ call.ret = Pending
    /\ call' = [call EXCEPT !.ret = Ok(as_number(call.arg))]
    /\ UNCHANGED <<quick, chunk_size, exit>>
    /\ UNCHANGED <<cfVars, dirVars>>

NextEncode == AsNumber
SpecEncode == InitEncode /\ [][NextEncode]_vars

\* The number a sequence of decimal digits denotes.
RECURSIVE DecimalValue(_)
DecimalValue(s) ==
    IF s = <<>>
    THEN 0
    ELSE 10 * DecimalValue(SubSeq(s, 1, Len(s) - 1)) + DigitVal(s[Len(s)])

AllDigits(s) == Len(s) >= 1 /\ \A i \in DOMAIN s : s[i] \in DigitChars

Encoded == call.fn = "as_number" /\ call.ret # Pending

\* C20: as_number writes Equal as -1, Different(offset) as the offset,
\* LeftOnly as -2, RightOnly as -3 and Error as -4; the encoding of a
\* Different outcome is a non-negative number and is none of the other
\* variants' encodings.
C20_Encoding ==
    Encoded =>
        LET d == call.arg
            s == call.ret[2]
        IN /\ d = Equal => s = <<"-", "1">>
           /\ d = LeftOnly => s = <<"-", "2">>
           /\ d = RightOnly => s = <<"-", "3">>
           /\ IsError(d) => s = <<"-", "4">>
           /\ IsDifferent(d) =>
                  /\ AllDigits(s)
                  /\ DecimalValue(s) = d[2]
                  /\ DecimalValue(s) >= 0
                  /\ s \notin {<<"-", "1">>, <<"-", "2">>, <<"-", "3">>, <<"-", "4">>}

\* C20 witness: a Different outcome with a three-digit offset has been
\* encoded.
C20_Witness ==
    Encoded /\ IsDifferent(call.arg) /\ call.arg[2] >= 100 /\ Len(call.ret[2]) = 3

(***************************************************************************)
(* parse_chunk_size (lib.rs 14-29) and its use in main (main.rs 38-42).    *)
(* A string is the sequence of its characters.                             *)
(***************************************************************************)
MaxStr == 3

None == <<"None">>
Some(v) == <<"Some", v>>

DEFAULT_CHUNK_SIZE == 64 * 1024

Suffixes == {"k", "K", "m", "M", "g", "G"}
Chars == {"0", "1", "7"} \cup Suffixes \cup {"x", "+", "-", " "}
Strings == UNION {[1..n -> Chars] : n \in 0..MaxStr}

\* str::trim: leading and trailing whitespace is removed.
RECURSIVE TrimStart(_)
TrimStart(s) ==
    IF s # <<>> /\ s[1] = " " THEN TrimStart(Tail(s)) ELSE s
RECURSIVE TrimEnd(_)
TrimEnd(s) ==
    IF s # <<>> /\ s[Len(s)] = " " THEN TrimEnd(SubSeq(s, 1, Len(s) - 1)) ELSE s
Trim(s) == TrimEnd(TrimStart(s))

\* str::parse::<usize>: an optional leading "+", then at least one digit.
\* A "-" is an invalid digit for an unsigned type.  A value of at most
\* MaxStr + 1 digits fits in usize.
ParseUsize(s) ==
    LET digits == IF s # <<>> /\ s[1] = "+" THEN Tail(s) ELSE s
    IN IF AllDigits(digits) THEN Ok(DecimalValue(digits)) ELSE Err("ParseIntError")

\* n * multiplier, kept as its two factors: for a 64-bit usize the product
\* of a number of at most MaxStr + 1 digits and 1024^3 does not overflow.
Bytes(n, multiplier) == <<n, multiplier>>

\* lib.rs 14-29
parse_chunk_size(str) ==
    LET s == Trim(str)
    IN IF s = <<>>
       THEN None
       ELSE LET last == s[Len(s)]
                init == SubSeq(s, 1, Len(s) - 1)
                parse(num_str, multiplier) ==
                    LET r == ParseUsize(num_str)
                    IN IF r[1] = "Ok" THEN Some(Bytes(r[2], multiplier)) ELSE None
            IN CASE last \in {"k", "K"} -> parse(init, 1024)
                 [] last \in {"m", "M"} -> parse(init, 1024 * 1024)
                 [] last \in {"g", "G"} -> parse(init, 1024 * 1024 * 1024)
                 [] last \in DigitChars -> parse(s, 1)
                 [] OTHER -> None

\* main.rs 38-42: the chunk size main goes on with, for the value of the
\* --chunk-size option.
MainChunk(arg) ==
    LET parsed == IF arg = None THEN None ELSE parse_chunk_size(arg[2])
    IN IF parsed = None THEN Bytes(DEFAULT_CHUNK_SIZE, 1) ELSE parsed[2]

InitParse ==
    /\ file1 = <<>> /\ file2 = <<>> /\ cf = CfStart
    /\ quick = FALSE /\ chunk_size = Bytes(0, 1)
    /\ fs1 = EmptyTree /\ fs2 = EmptyTree
    /\ dirlen = 0 /\ fault = NoFault
    /\ frames = [f \in FramePaths |-> IdleFrame]
    /\ exit = Running
    /\ \E a \in {None} \cup {Some(s) : s \in Strings} :
           call = [fn |-> "parse_chunk_size", arg |-> a, ret |-> Pending]

\* main.rs 38-42
MainChunkSize ==
    /\ call.fn = "parse_chunk_size" /\ call.ret = Pending
    /\ call' = [call EXCEPT !.ret =
                   Ok(IF call.arg = None THEN None ELSE parse_chunk_size(call.arg[2]))]
    /\ chunk_size' = MainChunk(call.arg)
    /\ UNCHANGED <<quick, exit>>
    /\ UNCHANGED <<cfVars, dirVars>>

NextParse == MainChunkSize
SpecParse == InitParse /\ [][NextParse]_vars

\* The grammar digits [suffix].
HasSuffix(s) == s # <<>> /\ s[Len(s)] \in Suffixes
DigitPart(s) == IF HasSuffix(s) THEN SubSeq(s, 1, Len(s) - 1) ELSE s
MatchesGrammar(s) == AllDigits(DigitPart(s))
Multiplier(s) ==
    IF ~HasSuffix(s) THEN 1
    ELSE CASE s[Len(s)] \in {"k", "K"} -> 1024
           [] s[Len(s)] \in {"m", "M"} -> 1024 * 1024
           [] s[Len(s)] \in {"g", "G"} -> 1024 * 1024 * 1024

Parsed == call.fn = "parse_chunk_size" /\ call.ret # Pending /\ call.arg # None

\* C18: parse_chunk_size(s) is Some(n * multiplier) exactly when s matches
\* the grammar digits [suffix], and None otherwise (empty string, sign
\* character, empty digit part, unrecognized suffix); on None main goes on
\* with the 64 KiB default.
C18_SomeExactlyOnGrammar ==
    Parsed =>
        LET s == call.arg[2]
            r == call.ret[2]
        IN /\ r # None <=> MatchesGrammar(s)
           /\ MatchesGrammar(s) =>
                  r = Some(<<DecimalValue(DigitPart(s)), Multiplier(s)>>)
           /\ r = None => chunk_size = <<65536, 1>>

\* main has chosen the chunk size it hands to compare_files / compare_dirs.
ChunkChosen == call.fn = "parse_chunk_size" /\ call.ret # Pending

\* C21: for every --chunk-size string the chunk size main hands to the
\* comparator is at least 1.
C21_ChunkSizePositive ==
    ChunkChosen => (chunk_size[1] >= 1 /\ chunk_size[2] >= 1)

\* Bytes of the file the reader has handed out so far.
Consumed(rd) == rd.off - rd.avail

\* At the start of a loop iteration pos is the number of bytes consumed
\* from each file, and the files agree on their first pos bytes.
LoopInv ==
    cf.pc = "loop" =>
        /\ cf.pos = Consumed(cf.rd1)
        /\ cf.pos = Consumed(cf.rd2)
        /\ cf.pos <= Len(file1) /\ cf.pos <= Len(file2)
        /\ SubSeq(file1, 1, cf.pos) = SubSeq(file2, 1, cf.pos)

\* An iteration reads one chunk from each file and either returns or goes
\* on to the next iteration; pos does not decrease.
LoopStep ==
    /\ cf'.pos >= cf.pos
    /\ cf.pc = "loop" =>
           /\ cf'.reads = cf.reads + 1
           /\ cf'.pc \in {"loop", "return"}
           /\ cf'.pc = "return" => cf'.pos = cf.pos

\* C22: at the start of every iteration of the read loop pos equals the
\* number of bytes consumed from file 1 and from file 2, and the first pos
\* bytes of the files are identical; each chunk is classified before the next
\* is read, and pos never decreases.
C22_LoopInvariant == [](LoopInv) /\ [][LoopStep]_vars

\* C22 witness: the third iteration starts in the middle of the files after
\* short reads.
C22_Witness ==
    /\ cf.pc = "loop" /\ cf.reads = 2 /\ chunk_size >= 2
    /\ cf.pos >= 2 /\ cf.pos < 2 * chunk_size
    /\ cf.pos < Len(file1) /\ cf.pos < Len(file2)

(***************************************************************************)
(* main (main.rs 44-45, 83): is_dir(path1) decides whether compare_dirs or *)
(* compare_files runs.  Every step of the call that runs is eventually     *)
(* taken: the loop of compare_files is sequential code, and the thread     *)
(* pool runs every task a parallel iterator dispatched.                    *)
(***************************************************************************)
\* main.rs 44: path1 is a directory.
IsDirMode == frames[<<>>].pc # "idle"

\* Longest file of a run whose completion is checked.
MaxLiveLen == 3

\* The runs whose completion is checked: two files of up to MaxLiveLen
\* bytes, or two trees compared in non-quick mode in which a directory may
\* fail to be listed or a file to be opened.
InitMain ==
    \/ Init /\ Len(file1) <= MaxLiveLen /\ Len(file2) <= MaxLiveLen
    \/ InitDirs /\ ~quick /\ dirlen = 0 /\ fault.what # "entry"

NextMain ==
    \/ ~IsDirMode /\ Next
    \/ IsDirMode /\ NextDirs

\* The sequential code of compare_files and of main goes on, a listing and
\* a join happen once they can, and every dispatched task is run.
FairMain ==
    /\ WF_vars(~IsDirMode /\ Next)
    /\ WF_vars(MainDirs)
    /\ \A f \in FramePaths :
          /\ WF_vars(ListDirs(f)) /\ WF_vars(Join1(f)) /\ WF_vars(Join2(f))
          /\ \A i \in 1..Cardinality(AllNames) :
                /\ WF_vars(Task1(f, i))
                /\ WF_vars(Task1Return(f, i))
                /\ WF_vars(Task2(f, i))

SpecMain == InitMain /\ [][NextMain]_vars /\ FairMain

\* Every task a frame dispatched has finished.
TasksFinished(f) == AllDone(frames[f].slot1) /\ AllDone(frames[f].slot2)

\* The comparison has completed: compare_files has returned, or the
\* top-level compare_dirs has returned with every call it made returned and
\* every task dispatched at every level finished.
Completed ==
    IF IsDirMode
    THEN /\ DirsReturned
         /\ \A f \in FramePaths :
                /\ frames[f].pc \in {"idle", "done"}
                /\ TasksFinished(f)
    ELSE Returned

\* C23: with a chunk size of at least 1 every comparison completes:
\* compare_files reaches a return, and compare_dirs returns after every
\* dispatched task at every level has finished, also when a branch fails.
C23_Completes == (chunk_size >= 1) ~> Completed

\* C23 witness: the walk has returned although listing the shared
\* subdirectory a failed, and the task of a sibling entry has finished.
C23_Witness ==
    /\ IsDirMode /\ Completed /\ DirsOk
    /\ Recurses(<<"a">>) /\ frames[<<"a">>].ret = Err("io")
    /\ Len(frames[<<>>].entries1) + Len(frames[<<>>].entries2) >= 3
    /\ \E i \in DOMAIN Results : IsError(Results[i][2])
    /\ \E i \in DOMAIN Results : ~IsError(Results[i][2])

====
